---------------------------- MODULE Spec2Model ----------------------------
(***************************************************************************)
(* A model of the oddity-rtsp connection engine (connection.rs), the       *)
(* framing codec (tokio.rs), the session registry (session_manager.rs)     *)
(* and the RTP-Info header parser (rtp_info.rs).                           *)
(*                                                                         *)
(* Six state machines share this module.  Each has its own variables,      *)
(* its own initial predicate and its own next-state relation; the          *)
(* variables of the others are held constant.                              *)
(*                                                                         *)
(*   Spec              one connection (reader, writer, Connection::run)    *)
(*                     next to the shared media controller                 *)
(*   ConnFairSpec      the same with the fairness of the thread scheduler  *)
(*   HandlerSpec       handle_request called with any request              *)
(*   CodecSpec         Codec::decode fed the encoding of any items         *)
(*   CodecRawSpec      Codec::decode fed any stream, malformed or not      *)
(*   RegistrySpec      SessionManager: its caller, its run loop, sessions  *)
(*   RegistryFairSpec  the same with the fairness of the task scheduler    *)
(*   RtpInfoSpec       RtpInfo::from_str called with any string            *)
(*   RtpRoundSpec      an RtpInfo value displayed and parsed back          *)
(***************************************************************************)
EXTENDS Naturals, Sequences, FiniteSets

VARIABLES
    \* ---- connection engine (connection.rs) ----
    rpc,        \* reader_loop: "read" | "handle" | "send" | "stopped" |
                \*              "failed" | "chanfail" | "panicked"
    req,        \* the request the reader holds (NoRequest when none)
    resp,       \* the response handle_request returned (NoResponse when none)
    nreq,       \* number of requests the reader has decoded
    chan,       \* the writer channel: items enqueued and not yet received
    wpc,        \* writer_loop: "select" | "write" | "stopped" | "failed" |
                \*              "disconnected"
    witem,      \* the item the writer is writing
    written,    \* items written to the socket, in order
    runpc,      \* Connection::run: "wait" | "shutdown" | "stopWriter" |
                \*                  "joinWriter" | "joinReader" | "done"
    cancelled,  \* the connection's external stop signal has been sent
    sockShut,   \* the socket has been shut down (Shutdown::Both)
    wstop,      \* the writer service's stop signal has been sent
    media,      \* the shared media controller behind its mutex
    nframes,    \* interleaved frames pushed by sessions
    \* ---- request handler (connection.rs, handle_request) ----
    hpc,        \* "idle" | "called" | "returned"
    hreq,       \* the request handle_request is called with
    hgen,       \* outcome of the session id generation of that call
    hres,       \* what the call did (see HandleRequest)
    hbefore,    \* the media controller when the call was made
    hmedia,     \* the media controller
    \* ---- framing codec (tokio.rs) ----
    cItems,     \* the items that were encoded onto the wire
    cWire,      \* encoded bytes not yet read into the buffer
    cBuf,       \* the read buffer (src: BytesMut)
    cState,     \* Codec::state: "Init" | "ParseMessage" | "ParseInterleaved"
    cParser,    \* Codec::parser
    cOut,       \* the items decode has returned, in order
    cHungry,    \* the last decode returned Ok(None)
    cErr,       \* a decode returned Err
    cBytewise,  \* every chunk read so far was a single byte
    \* ---- session registry (session_manager.rs) ----
    sessions,   \* SessionManager::sessions: id -> index in sess, 0 when absent
    sess,       \* every session started so far: [id, state], state
                \*   "running" | "stopped"
    mapLock,    \* holder of the map's mutex: "free" | "caller"
    stateCh,    \* the session state channel: ids of queued Stopped(id)
    cpc,        \* the task calling the manager: "idle" | "su_start" |
                \*   "su_insert" | "td_await" | "stop_join" | "stop_drain" |
                \*   "stopped"
    cid,        \* the session id of the call in progress
    cret,       \* the last call that returned: [op, id, result, prior]
    mpc,        \* SessionManager::run: "select" | "remove" | "exited"
    mid,        \* the id of the Stopped(id) the run loop is handling
    stopReq,    \* the worker task has been told to stop
    tdState,    \* per id, since its last registration: "fresh" | "torn"
                \*   (a teardown returned Some) | "removed" (and the run
                \*   loop then handled its Stopped)
    \* ---- RTP-Info header (rtp_info.rs) ----
    tIn,        \* the string from_str is called with, a sequence of characters
    tOut,       \* what from_str returned (NoParse before the call)
    \* ---- RTP-Info header, Display then FromStr (rtp_info.rs) ----
    dVal,       \* the RtpInfo value that is displayed
    dText,      \* the text Display wrote (None before the call)
    dBack       \* what from_str returned for that text (NoParse before)

connVars == <<rpc, req, resp, nreq, chan, wpc, witem, written, runpc,
              cancelled, sockShut, wstop, media, nframes>>

handVars == <<hpc, hreq, hgen, hres, hbefore, hmedia>>

codecVars == <<cItems, cWire, cBuf, cState, cParser, cOut, cHungry, cErr,
               cBytewise>>

regVars == <<sessions, sess, mapLock, stateCh, cpc, cid, cret, mpc, mid,
             stopReq, tdState>>

rtpVars == <<tIn, tOut>>

roundVars == <<dVal, dText, dBack>>

vars == <<connVars, handVars, codecVars, regVars, rtpVars, roundVars>>

\* What the connection engine leaves alone.
notConn == <<handVars, codecVars, regVars, rtpVars, roundVars>>

\* What the request handler's specification leaves alone.
notHand == <<connVars, codecVars, regVars, rtpVars, roundVars>>

\* What the codec's specification leaves alone.
notCodec == <<connVars, handVars, regVars, rtpVars, roundVars>>

\* What the session registry's specification leaves alone.
notReg == <<connVars, handVars, codecVars, rtpVars, roundVars>>

\* What the RTP-Info parser's specification leaves alone.
notRtp == <<connVars, handVars, codecVars, regVars, roundVars>>

\* What the RTP-Info round trip's specification leaves alone.
notRound == <<connVars, handVars, codecVars, regVars, rtpVars>>

---------------------------------------------------------------------------
\* Bounds of the model.

\* Requests one connection reads.
MaxRequests == 2

\* Capacity of the writer channel.
ChanCap == 2

\* Interleaved frames sessions push onto the writer channel.
MaxFrames == 1

\* Items encoded onto the wire the codec decodes.
MaxItems == 2

\* Bytes of a message body and of an interleaved payload.
MaxData == 1

\* Sessions started by the registry.
MaxSessions == 2

\* Bytes of an arbitrary stream given to the codec.
MaxRaw == 5

\* ';'-separated fields of a string given to the RTP-Info parser.
MaxFields == 4

\* Characters of the url of an RtpInfo value that is displayed.
MaxUrl == 2

---------------------------------------------------------------------------
\* Requests and responses (oddity_rtsp_protocol::{Request, Response}).

Methods == {"OPTIONS", "ANNOUNCE", "DESCRIBE", "GET_PARAMETER",
            "SET_PARAMETER", "SETUP", "PLAY", "PAUSE", "RECORD", "TEARDOWN",
            "REDIRECT"}

\* Values of the CSeq header; "none" is a request without one.
CSeqs == {"none", "1", "2"}

\* Request paths; "/a" is registered as a media item, "/x" is not.
Paths == {"/a", "/x"}

Requests == [method : Methods, cseq : CSeqs, require : BOOLEAN,
             session : BOOLEAN, accept_sdp : BOOLEAN, path : Paths]

\* The requests the clients of the modelled connections send, one for each
\* way handle_request can end: a response without the media lock taken
\* (406 is left to HandlerSpec), a response with it, a panic that poisons
\* the lock, a panic that does not.
ClientRequests ==
    {r \in Requests : /\ r.method \in {"DESCRIBE", "SETUP", "PLAY"}
                      /\ r.cseq = "1" /\ r.path = "/a"
                      /\ ~r.require /\ ~r.session /\ r.accept_sdp}

NoRequest == [method |-> "NONE", cseq |-> "none", require |-> FALSE,
              session |-> FALSE, accept_sdp |-> FALSE, path |-> "/x"]

NoResponse == [status |-> 0, cseq |-> "none", header |-> "none"]

\* Response::ok()
ResponseOk == [status |-> 200, cseq |-> "none", header |-> "none"]

\* Response::error(status)
ResponseError(status) == [status |-> status, cseq |-> "none", header |-> "none"]

\* ResponseBuilder::with_cseq_of: copy the request's CSeq header.
with_cseq_of(response, request) == [response EXCEPT !.cseq = request.cseq]

\* ResponseBuilder::with_header
with_header(response, name) == [response EXCEPT !.header = name]

\* ResponseBuilder::with_sdp: Content-Type application/sdp and the body.
with_sdp(response, sdp) == [response EXCEPT !.header = sdp]

---------------------------------------------------------------------------
\* The media controller (media::Controller behind Arc<Mutex<..>>).

\* sources: paths registered at start-up; sessions: sessions registered;
\* poisoned: a thread panicked while holding the mutex.
MediaInit == [sources |-> {"/a"}, sessions |-> 0, poisoned |-> FALSE]

\* media::Controller::query_sdp
query_sdp(m, path) == IF path \in m.sources THEN "sdp" ELSE "None"

\* media::Controller::register_session; gen is the outcome of the session
\* id generation ("fresh" or "collision").
register_session(m, path, gen) ==
    IF path \notin m.sources THEN "NotFound"
    ELSE IF gen = "collision" THEN "AlreadyExists"
    ELSE "Ok"

---------------------------------------------------------------------------
\* The reply helpers of connection.rs.

reply_to_options_with_supported_methods(request) ==
    with_header(with_cseq_of(ResponseOk, request), "Public")

reply_to_describe_with_media_sdp(request, sdp) ==
    with_sdp(with_cseq_of(ResponseOk, request), sdp)

reply_option_not_supported(request) ==
    with_cseq_of(ResponseError(551), request)

reply_method_not_supported(request) ==
    with_cseq_of(ResponseError(405), request)

reply_method_not_valid(request) ==
    with_cseq_of(ResponseError(455), request)

reply_not_acceptable(request) ==
    with_cseq_of(ResponseError(406), request)

\* A 404 built without with_cseq_of.
reply_not_found_without_cseq(request) == ResponseError(404)

reply_not_found(request) ==
    with_cseq_of(ResponseError(404), request)

reply_aggregate_operation_not_allowed(request) ==
    with_cseq_of(ResponseError(459), request)

reply_internal_server_error(request) ==
    with_cseq_of(ResponseError(500), request)

is_request_require_supported(request) == ~request.require

is_request_one_of_content_types_supported(request) == request.accept_sdp

---------------------------------------------------------------------------
\* handle_request.  The result is what the call does: "Ok" with a response,
\* or "Panic" (unimplemented!(), or unwrap() of a poisoned lock), together
\* with the media controller afterwards and whether the lock was taken.

Returned(response, m, locked) ==
    [kind |-> "Ok", response |-> response, media |-> m, locked |-> locked]

Panicked(m, locked) ==
    [kind |-> "Panic", response |-> NoResponse, media |-> m, locked |-> locked]

NoResult ==
    [kind |-> "None", response |-> NoResponse, media |-> MediaInit, locked |-> FALSE]

\* Method::Describe
HandleDescribe(request, m) ==
    IF is_request_one_of_content_types_supported(request)
    THEN IF m.poisoned
         THEN Panicked(m, FALSE)
         ELSE IF query_sdp(m, request.path) # "None"
              THEN Returned(reply_to_describe_with_media_sdp(
                                request, query_sdp(m, request.path)), m, TRUE)
              ELSE Returned(reply_not_found(request), m, TRUE)
    ELSE Returned(reply_not_acceptable(request), m, FALSE)

\* A SETUP that registers the session before it looks at the Session
\* header.
HandleSetupSessionLate(request, m, gen) ==
    IF m.poisoned
    THEN Panicked(m, FALSE)
    ELSE CASE register_session(m, request.path, gen) = "Ok" ->
                IF ~request.session
                THEN Panicked([m EXCEPT !.sessions = @ + 1,
                                        !.poisoned = TRUE], TRUE)
                ELSE Returned(reply_aggregate_operation_not_allowed(request),
                              [m EXCEPT !.sessions = @ + 1], TRUE)
           [] register_session(m, request.path, gen) = "NotFound" ->
                Returned(reply_not_found(request), m, TRUE)
           [] OTHER ->
                Returned(reply_internal_server_error(request), m, TRUE)

\* Method::Setup.  The lock guard lives until the end of the match, so the
\* unimplemented!() of the Ok arm panics with the lock held and poisons it.
HandleSetup(request, m, gen) ==
    IF ~request.session
    THEN IF m.poisoned
         THEN Panicked(m, FALSE)
         ELSE CASE register_session(m, request.path, gen) = "Ok" ->
                     Panicked([m EXCEPT !.sessions = @ + 1,
                                        !.poisoned = TRUE], TRUE)
                [] register_session(m, request.path, gen) = "NotFound" ->
                     Returned(reply_not_found(request), m, TRUE)
                [] OTHER ->
                     Returned(reply_internal_server_error(request), m, TRUE)
    ELSE Returned(reply_aggregate_operation_not_allowed(request), m, FALSE)

\* The method switch.
HandleMethod(request, m, gen) ==
    CASE request.method = "OPTIONS" ->
             Returned(reply_to_options_with_supported_methods(request), m, FALSE)
      [] request.method \in {"ANNOUNCE", "GET_PARAMETER", "SET_PARAMETER",
                             "PAUSE", "RECORD"} ->
             Returned(reply_method_not_supported(request), m, FALSE)
      [] request.method = "DESCRIBE" -> HandleDescribe(request, m)
      [] request.method = "SETUP" -> HandleSetup(request, m, gen)
      [] request.method \in {"PLAY", "TEARDOWN"} -> Panicked(m, FALSE)
      [] OTHER -> Returned(reply_method_not_valid(request), m, FALSE)

\* The Require check made only on the stateless methods.
HandleRequestRequireLate(request, m, gen) ==
    IF request.method \in {"SETUP", "PLAY", "TEARDOWN"}
    THEN HandleMethod(request, m, gen)
    ELSE IF ~is_request_require_supported(request)
         THEN Returned(reply_option_not_supported(request), m, FALSE)
         ELSE HandleMethod(request, m, gen)

HandleRequest(request, m, gen) ==
    IF ~is_request_require_supported(request)
    THEN Returned(reply_option_not_supported(request), m, FALSE)
    ELSE HandleMethod(request, m, gen)

---------------------------------------------------------------------------
\* Items of the writer channel (ResponseMaybeInterleaved).  no is the
\* number of the request a Message answers.

MessageItem(response, no) == [kind |-> "Message", response |-> response, no |-> no]

InterleavedItem == [kind |-> "Interleaved", response |-> NoResponse, no |-> 0]

NoItem == [kind |-> "None", response |-> NoResponse, no |-> 0]

ReaderExited == rpc \in {"stopped", "failed", "chanfail", "panicked"}

WriterExited == wpc \in {"stopped", "failed", "disconnected"}

\* Every sender of the writer channel is gone: the reader's clone and the
\* original that Connection::run keeps until it returns.
Disconnected == ReaderExited /\ runpc = "done"

---------------------------------------------------------------------------
\* The framing codec (tokio.rs).  Bytes are numbers.  The wire format keeps
\* what the codec's state machine depends on: a message is a start line,
\* an optional Content-Length header line, an empty line and a body of
\* Content-Length bytes; an interleaved frame is the magic byte, the
\* channel, the big-endian length and the payload.  A body and a payload
\* may hold any byte, the magic byte and the line end included.

\* interleaved::MAGIC, '$'
MAGIC == 36

\* The line end.
LF == 10

\* The start line of a message.
START == 82

\* The Content-Length header line for a body of n bytes: the digit n.
DIGIT0 == 48

BodyBytes == {MAGIC, LF}

PayloadBytes == {MAGIC}

Channels == {0, MAGIC}

SeqsUpTo(S, n) == UNION {[1..k -> S] : k \in 0..n}

MessageOf(body) ==
    [kind |-> "Message", body |-> body, channel |-> 0, payload |-> <<>>]

InterleavedOf(channel, payload) ==
    [kind |-> "Interleaved", body |-> <<>>, channel |-> channel,
     payload |-> payload]

WireItems ==
    {MessageOf(b) : b \in SeqsUpTo(BodyBytes, MaxData)}
      \cup {InterleavedOf(ch, pl) : ch \in Channels,
                                    pl \in SeqsUpTo(PayloadBytes, MaxData)}

\* MaybeInterleaved::serialize
Serialize(item) ==
    IF item.kind = "Message"
    THEN <<START, LF>>
           \o (IF item.body = <<>> THEN <<>>
               ELSE <<DIGIT0 + Len(item.body), LF>>)
           \o <<LF>> \o item.body
    ELSE <<MAGIC, item.channel, Len(item.payload) \div 256,
           Len(item.payload) % 256>> \o item.payload

\* Codec::encode, item after item onto one buffer.
RECURSIVE EncodeAll(_)
EncodeAll(items) ==
    IF items = <<>> THEN <<>>
    ELSE Serialize(Head(items)) \o EncodeAll(Tail(items))

\* Parser::new()
ParserNew == [phase |-> "StartLine", line |-> <<>>, clen |-> 0, body |-> <<>>]

\* Parser::parse: consumes bytes of the buffer, through the phases
\* StartLine, Headers and Body, until the message is complete (Done), the
\* buffer is empty (Hungry) or a line is malformed (Error).
RECURSIVE ParserParse(_, _)
ParserParse(p, buf) ==
    IF p.phase = "Body" /\ Len(p.body) = p.clen
    THEN [parser |-> p, buf |-> buf, status |-> "Done"]
    ELSE IF buf = <<>>
    THEN [parser |-> p, buf |-> buf, status |-> "Hungry"]
    ELSE LET b == Head(buf)
             rest == Tail(buf)
         IN CASE p.phase = "Body" ->
                   ParserParse([p EXCEPT !.body = Append(@, b)], rest)
              [] p.phase # "Body" /\ b # LF ->
                   ParserParse([p EXCEPT !.line = Append(@, b)], rest)
              [] p.phase = "StartLine" /\ b = LF ->
                   IF p.line = <<START>>
                   THEN ParserParse([p EXCEPT !.phase = "Headers",
                                              !.line = <<>>], rest)
                   ELSE [parser |-> p, buf |-> rest, status |-> "Error"]
              [] OTHER ->
                   IF p.line = <<>>
                   THEN ParserParse([p EXCEPT !.phase = "Body"], rest)
                   ELSE IF Len(p.line) = 1 /\ p.line[1] \in DIGIT0..(DIGIT0 + 9)
                   THEN ParserParse([p EXCEPT !.clen = p.line[1] - DIGIT0,
                                              !.line = <<>>], rest)
                   ELSE [parser |-> p, buf |-> rest, status |-> "Error"]

\* Parser::into_message
IntoMessage(p) == MessageOf(p.body)

\* InterleavedParser::parse: None until the header and the whole payload
\* are buffered, then the frame, taken off the buffer.
InterleavedParse(buf) ==
    IF Len(buf) < 4 \/ Len(buf) < 4 + (buf[3] * 256 + buf[4])
    THEN [status |-> "None", buf |-> buf, item |-> MessageOf(<<>>)]
    ELSE LET n == buf[3] * 256 + buf[4] IN
         [status |-> "Some",
          buf |-> SubSeq(buf, 5 + n, Len(buf)),
          item |-> InterleavedOf(buf[2], SubSeq(buf, 5, 4 + n))]

\* The state after the match arm of a completed item forgot its reset.
StateKept(state) == state

\* self.state = State::Init, in the arm of a completed item.
StateReset(state) == "Init"

\* A discrimination made in every state, on every decode call.
DiscriminateAnyState(state, buf) ==
    IF buf # <<>>
    THEN IF buf[1] = MAGIC THEN "ParseInterleaved" ELSE "ParseMessage"
    ELSE state

\* The discrimination of decode's first block: only in Init, only on a
\* non-empty buffer, by the first byte.
Discriminate(state, buf) ==
    IF state = "Init" /\ buf # <<>>
    THEN IF buf[1] = MAGIC THEN "ParseInterleaved" ELSE "ParseMessage"
    ELSE state

\* Codec::decode.  result is "Item" (Ok(Some(item))), "None" (Ok(None)) or
\* "Error" (Err).
Decode(state, parser, buf) ==
    LET st == Discriminate(state, buf)
        none == [state |-> st, parser |-> parser, buf |-> buf,
                 result |-> "None", item |-> MessageOf(<<>>)]
    IN  IF st = "Init" THEN none
        ELSE IF st = "ParseMessage"
        THEN LET r == ParserParse(parser, buf) IN
             CASE r.status = "Done" ->
                    [state |-> StateReset(st), parser |-> ParserNew,
                     buf |-> r.buf, result |-> "Item",
                     item |-> IntoMessage(r.parser)]
               [] r.status = "Hungry" ->
                    [none EXCEPT !.parser = r.parser, !.buf = r.buf]
               [] OTHER ->
                    [none EXCEPT !.parser = r.parser, !.buf = r.buf,
                                 !.result = "Error"]
        ELSE LET r == InterleavedParse(buf) IN
             IF r.status = "Some"
             THEN [state |-> StateReset(st), parser |-> parser,
                   buf |-> r.buf, result |-> "Item", item |-> r.item]
             ELSE none

---------------------------------------------------------------------------
\* The session registry (session_manager.rs).

\* What SessionId::generate can return.
Ids == {"s1", "s2"}

\* HashMap::new()
MapNew == [id \in Ids |-> 0]

\* An entry that is always reported vacant.
EntryAlwaysVacant(m, id) == TRUE

\* sessions.entry(id) is Entry::Vacant
EntryVacant(m, id) == m[id] = 0

\* entry.insert(session)
MapInsert(m, id, i) == [m EXCEPT ![id] = i]

\* sessions.get_mut(id) is Some
MapHas(m, id) == m[id] # 0

\* A remove that leaves the entry in the map.
MapRemoveNothing(m, id) == m

\* sessions.remove(&id)
MapRemove(m, id) == [m EXCEPT ![id] = 0]

\* Session::teardown on each of the sessions in `which`: a running session
\* stops.
TornDown(ss, which) ==
    [i \in 1..Len(ss) |->
        IF i \in which THEN [ss[i] EXCEPT !.state = "stopped"] ELSE ss[i]]

\* The state channel after the sessions in `which` that were running have
\* each sent their Stopped(id), in the order `order` of session indices.
\* Nothing is queued once the run loop has dropped the receiver.
RECURSIVE Notified(_, _, _, _)
Notified(ch, ss, order, exited) ==
    IF order = <<>> \/ exited THEN ch
    ELSE Notified(IF ss[Head(order)].state = "running"
                  THEN Append(ch, ss[Head(order)].id) ELSE ch,
                  ss, Tail(order), exited)

NoReturn == [op |-> "none", id |-> "s1", result |-> "none", prior |-> "fresh"]

---------------------------------------------------------------------------
\* The RTP-Info header (rtp_info.rs).  A string is a sequence of
\* one-character strings.

URL_PREFIX == <<"u", "r", "l", "=">>

SEQ_PREFIX == <<"s", "e", "q", "=">>

RTPTIME_PREFIX == <<"r", "t", "p", "t", "i", "m", "e", "=">>

\* The decimal digits, the digit d at index d + 1.
DigitChars == <<"0", "1", "2", "3", "4", "5", "6", "7", "8", "9">>

IsDigit(ch) == \E k \in 1..Len(DigitChars) : DigitChars[k] = ch

DigitIndex(ch) == CHOOSE k \in 1..Len(DigitChars) : DigitChars[k] = ch

\* u16::MAX and u32::MAX in decimal.
U16_MAX == <<"6", "5", "5", "3", "5">>

U32_MAX == <<"4", "2", "9", "4", "9", "6", "7", "2", "9", "5">>

\* str::split(sep): the parts between the separators; a string without
\* separator (the empty string too) is one part.
RECURSIVE Split(_, _)
Split(s, sep) ==
    IF \E i \in 1..Len(s) : s[i] = sep
    THEN LET i == CHOOSE i \in 1..Len(s) :
                      s[i] = sep /\ \A j \in 1..(i - 1) : s[j] # sep
         IN <<SubSeq(s, 1, i - 1)>> \o Split(SubSeq(s, i + 1, Len(s)), sep)
    ELSE <<s>>

\* str::strip_prefix(prefix) is Some
StartsWith(s, prefix) ==
    Len(s) >= Len(prefix) /\ SubSeq(s, 1, Len(prefix)) = prefix

\* the rest that str::strip_prefix(prefix) returns
StripPrefix(s, prefix) == SubSeq(s, Len(prefix) + 1, Len(s))

\* A digit string without its leading zeros ("0" for zero).
RECURSIVE StripZeros(_)
StripZeros(d) ==
    IF Len(d) > 1 /\ d[1] = "0" THEN StripZeros(Tail(d)) ELSE d

\* a <= b for digit strings without leading zeros.
RECURSIVE LeqDigits(_, _)
LeqDigits(a, b) ==
    IF Len(a) # Len(b) THEN Len(a) < Len(b)
    ELSE IF a = <<>> THEN TRUE
    ELSE IF a[1] # b[1] THEN DigitIndex(a[1]) < DigitIndex(b[1])
    ELSE LeqDigits(Tail(a), Tail(b))

\* str::parse::<u16>() / ::<u32>(): an optional '+', then one or more
\* digits, the number not above max.  The value is kept as its decimal
\* digits.
ParseUnsigned(s, max) ==
    LET d == IF s # <<>> /\ s[1] = "+" THEN Tail(s) ELSE s IN
    IF d = <<>> \/ \E i \in 1..Len(d) : ~IsDigit(d[i])
    THEN [ok |-> FALSE, value |-> <<>>]
    ELSE IF LeqDigits(StripZeros(d), max)
         THEN [ok |-> TRUE, value |-> StripZeros(d)]
         ELSE [ok |-> FALSE, value |-> <<>>]

\* Option<u16> / Option<u32>
None == [some |-> FALSE, value |-> <<>>]

Some(v) == [some |-> TRUE, value |-> v]

\* RtpInfo::new
RtpInfoNew(url) == [url |-> url, seq |-> None, rtptime |-> None]

ParseOk(info) == [kind |-> "Ok", info |-> info, err |-> "none"]

ParseErr(err) == [kind |-> "Err", info |-> RtpInfoNew(<<>>), err |-> err]

NoParse == [kind |-> "None", info |-> RtpInfoNew(<<>>), err |-> "none"]

\* from_str::parse_parameter
parse_parameter(part, rtp_info) ==
    IF StartsWith(part, SEQ_PREFIX)
    THEN IF ParseUnsigned(StripPrefix(part, SEQ_PREFIX), U16_MAX).ok
         THEN ParseOk([rtp_info EXCEPT !.seq = Some(
                  ParseUnsigned(StripPrefix(part, SEQ_PREFIX), U16_MAX).value)])
         ELSE ParseErr("RtpInfoParameterInvalid")
    ELSE IF StartsWith(part, RTPTIME_PREFIX)
    THEN IF ParseUnsigned(StripPrefix(part, RTPTIME_PREFIX), U32_MAX).ok
         THEN ParseOk([rtp_info EXCEPT !.rtptime = Some(
                  ParseUnsigned(StripPrefix(part, RTPTIME_PREFIX), U32_MAX).value)])
         ELSE ParseErr("RtpInfoParameterInvalid")
    ELSE ParseErr("RtpInfoParameterUnknown")

\* <RtpInfo as FromStr>::from_str
from_str(s) ==
    LET parts == Split(s, ";") IN
    IF ~StartsWith(parts[1], URL_PREFIX)
    THEN ParseErr("RtpInfoParameterUnknown")
    ELSE IF Len(parts) = 1
    THEN ParseOk(RtpInfoNew(StripPrefix(parts[1], URL_PREFIX)))
    ELSE LET first == parse_parameter(
                          parts[2], RtpInfoNew(StripPrefix(parts[1], URL_PREFIX)))
         IN IF first.kind = "Err" THEN first
            ELSE IF Len(parts) = 2 THEN first
            ELSE LET second == parse_parameter(parts[3], first.info)
                 IN IF second.kind = "Err" THEN second
                    ELSE IF Len(parts) = 3 THEN second
                    ELSE ParseErr("RtpInfoParameterUnexpected")

\* A Display that writes rtptime before seq.
fmt_rtptime_first(x) ==
    URL_PREFIX \o x.url
      \o (IF x.rtptime.some
          THEN <<";">> \o RTPTIME_PREFIX \o x.rtptime.value ELSE <<>>)
      \o (IF x.seq.some
          THEN <<";">> \o SEQ_PREFIX \o x.seq.value ELSE <<>>)

\* <RtpInfo as Display>::fmt.  A u16 / u32 is written in decimal without
\* leading zeros, which is how its value is kept.
fmt(x) ==
    URL_PREFIX \o x.url
      \o (IF x.seq.some
          THEN <<";">> \o SEQ_PREFIX \o x.seq.value ELSE <<>>)
      \o (IF x.rtptime.some
          THEN <<";">> \o RTPTIME_PREFIX \o x.rtptime.value ELSE <<>>)

\* The fields the strings given to from_str are made of.
RtpFields ==
    { URL_PREFIX \o <<"u">>,
      <<"u">>,
      SEQ_PREFIX \o <<"1">>,
      SEQ_PREFIX \o <<"2">>,
      SEQ_PREFIX \o <<"6", "5", "5", "3", "6">>,
      SEQ_PREFIX \o <<"x">>,
      RTPTIME_PREFIX \o <<"7">>,
      <<"f", "=", "1">>,
      <<>> }

\* The fields joined by ';'.
RECURSIVE Join(_)
Join(fields) ==
    IF Len(fields) = 1 THEN fields[1]
    ELSE fields[1] \o <<";">> \o Join(Tail(fields))

RtpInputs ==
    {Join(fs) : fs \in UNION {[1..k -> RtpFields] : k \in 1..MaxFields}}

\* The characters of a url: a letter, the field separator, the equals sign.
UrlChars == {"u", ";", "="}

\* Urls of the values that are displayed; the last one looks like a url
\* followed by a seq parameter.
Urls ==
    UNION {[1..k -> UrlChars] : k \in 0..MaxUrl}
      \cup {<<"u", ";">> \o SEQ_PREFIX \o <<"1">>}

\* Option<u16> values: absent, the least, a middle one, the greatest.
SeqValues == {None, Some(<<"0">>), Some(<<"1">>), Some(U16_MAX)}

\* Option<u32> values: absent, the least, a middle one, the greatest.
RtptimeValues == {None, Some(<<"0">>), Some(<<"7">>), Some(U32_MAX)}

\* The RtpInfo values that are displayed: any url with any seq and
\* rtptime, and every value from_str returns for an accepted string.
RtpValues ==
    [url : Urls, seq : SeqValues, rtptime : RtptimeValues]
      \cup {from_str(s).info : s \in {t \in RtpInputs : from_str(t).kind = "Ok"}}

---------------------------------------------------------------------------
\* The state each machine starts in.

ConnInit ==
    /\ rpc = "read"
    /\ req = NoRequest
    /\ resp = NoResponse
    /\ nreq = 0
    /\ chan = <<>>
    /\ wpc = "select"
    /\ witem = NoItem
    /\ written = <<>>
    /\ runpc = "wait"
    /\ cancelled = FALSE
    /\ sockShut = FALSE
    /\ wstop = FALSE
    /\ media = MediaInit
    /\ nframes = 0

\* The other state machines at rest.
HandRest ==
    /\ hpc = "idle"
    /\ hreq = NoRequest
    /\ hgen = "fresh"
    /\ hres = NoResult
    /\ hbefore = MediaInit
    /\ hmedia = MediaInit

\* A fresh codec in front of the encoding of any items.
CodecInit ==
    /\ cItems \in SeqsUpTo(WireItems, MaxItems)
    /\ cWire = EncodeAll(cItems)
    /\ cBuf = <<>>
    /\ cState = "Init"
    /\ cParser = ParserNew
    /\ cOut = <<>>
    /\ cHungry = FALSE
    /\ cErr = FALSE
    /\ cBytewise = TRUE

\* The bytes of an arbitrary stream: the magic byte, the line end, the
\* start line and the zero of a frame's length.
RawBytes == {MAGIC, LF, START, 0}

\* The streams a peer can send: any bytes, and the encoding of any items.
RawWires ==
    SeqsUpTo(RawBytes, MaxRaw)
      \cup {EncodeAll(items) : items \in SeqsUpTo(WireItems, MaxItems)}

\* A fresh codec in front of any stream.
CodecRawInit ==
    /\ cItems = <<>>
    /\ cWire \in RawWires
    /\ cBuf = <<>>
    /\ cState = "Init"
    /\ cParser = ParserNew
    /\ cOut = <<>>
    /\ cHungry = FALSE
    /\ cErr = FALSE
    /\ cBytewise = TRUE

CodecRest ==
    /\ cItems = <<>>
    /\ cWire = <<>>
    /\ cBuf = <<>>
    /\ cState = "Init"
    /\ cParser = ParserNew
    /\ cOut = <<>>
    /\ cHungry = FALSE
    /\ cErr = FALSE
    /\ cBytewise = TRUE

\* SessionManager::start: an empty map, the run loop spawned.
RegInit ==
    /\ sessions = MapNew
    /\ sess = <<>>
    /\ mapLock = "free"
    /\ stateCh = <<>>
    /\ cpc = "idle"
    /\ cid = "s1"
    /\ cret = NoReturn
    /\ mpc = "select"
    /\ mid = "s1"
    /\ stopReq = FALSE
    /\ tdState = [id \in Ids |-> "fresh"]

\* No string parsed.
RtpRest ==
    /\ tIn = <<>>
    /\ tOut = NoParse

\* No value displayed.
RoundRest ==
    /\ dVal = RtpInfoNew(<<>>)
    /\ dText = None
    /\ dBack = NoParse

\* Any RtpInfo value, before it is displayed.
RoundInit ==
    /\ dVal \in RtpValues
    /\ dText = None
    /\ dBack = NoParse

\* Any string, before from_str is called.
RtpInit ==
    /\ tIn \in RtpInputs
    /\ tOut = NoParse

---------------------------------------------------------------------------
\* reader_loop

\* reader.read() returns Ok(request).
ReaderReadRequest ==
    /\ rpc = "read"
    /\ ~sockShut
    /\ nreq < MaxRequests
    /\ \E request \in ClientRequests : req' = request
    /\ nreq' = nreq + 1
    /\ rpc' = "handle"
    /\ UNCHANGED <<resp, chan, wpc, witem, written, runpc, cancelled, sockShut, wstop, media, nframes>>
    /\ UNCHANGED notConn

\* reader.read() returns Err(RtspError::Shutdown): the socket was shut down.
ReaderReadShutdown ==
    /\ rpc = "read"
    /\ sockShut
    /\ rpc' = "stopped"
    /\ UNCHANGED <<req, resp, nreq, chan, wpc, witem, written, runpc,
                   cancelled, sockShut, wstop, media, nframes>>
    /\ UNCHANGED notConn

\* reader.read() returns any other error (parse error, I/O error).
ReaderReadError ==
    /\ rpc = "read"
    /\ rpc' = "failed"
    /\ UNCHANGED <<req, resp, nreq, chan, wpc, witem, written, runpc,
                   cancelled, sockShut, wstop, media, nframes>>
    /\ UNCHANGED notConn

\* What the reader does with the result of handle_request.
ReaderAfterHandle(h) ==
    CASE h.kind = "Ok" -> "send"
      [] h.kind = "Err" -> "read"
      [] OTHER -> "panicked"

\* handle_request(&request, media.clone())
ReaderHandle ==
    /\ rpc = "handle"
    /\ \E gen \in {"fresh", "collision"} :
         LET h == HandleRequest(req, media, gen) IN
           /\ rpc' = ReaderAfterHandle(h)
           /\ resp' = h.response
           /\ req' = NoRequest
           /\ media' = h.media
    /\ UNCHANGED <<nreq, chan, wpc, witem, written, runpc, cancelled,
                   sockShut, wstop, nframes>>
    /\ UNCHANGED notConn

\* A send that jumps the queue.
ChanSendFront(c, item) == <<item>> \o c

\* The channel after writer_tx.send(item).
ChanSend(c, item) == Append(c, item)

\* writer_tx.send(ResponseMaybeInterleaved::Message(response)): fails when
\* the receiver is gone, blocks while the channel is full.
ReaderSend ==
    /\ rpc = "send"
    /\ IF WriterExited
       THEN /\ rpc' = "chanfail"
            /\ chan' = chan
       ELSE /\ Len(chan) < ChanCap
            /\ chan' = ChanSend(chan, MessageItem(resp, nreq))
            /\ rpc' = "read"
    /\ resp' = NoResponse
    /\ UNCHANGED <<req, nreq, wpc, witem, written, runpc, cancelled, sockShut, wstop, media, nframes>>
    /\ UNCHANGED notConn

---------------------------------------------------------------------------
\* writer_loop

\* The item recv(writer_rx) takes and the channel it leaves.
ChanRecv(c) == [item |-> Head(c), rest |-> Tail(c)]

\* select!: recv(writer_rx) is ready.
WriterRecv ==
    /\ wpc = "select"
    /\ chan # <<>> \/ Disconnected
    /\ IF chan # <<>>
       THEN /\ witem' = ChanRecv(chan).item
            /\ chan' = ChanRecv(chan).rest
            /\ wpc' = "write"
       ELSE /\ wpc' = "disconnected"
            /\ UNCHANGED <<witem, chan>>
    /\ UNCHANGED <<rpc, req, resp, nreq, written, runpc, cancelled, sockShut, wstop, media, nframes>>
    /\ UNCHANGED notConn

\* select!: recv(stop_rx) is ready.  The receiver is dropped with what is
\* still queued.
WriterStop ==
    /\ wpc = "select"
    /\ wstop
    /\ wpc' = "stopped"
    /\ chan' = <<>>
    /\ UNCHANGED <<rpc, req, resp, nreq, witem, written, runpc,
                   cancelled, sockShut, wstop, media, nframes>>
    /\ UNCHANGED notConn

\* writer.write(response) succeeds.
WriterWriteOk ==
    /\ wpc = "write"
    /\ ~sockShut
    /\ written' = Append(written, witem)
    /\ witem' = NoItem
    /\ wpc' = "select"
    /\ UNCHANGED <<rpc, req, resp, nreq, chan, runpc, cancelled, sockShut, wstop, media, nframes>>
    /\ UNCHANGED notConn

\* writer.write(response) fails (always, once the socket is shut down).
WriterWriteFail ==
    /\ wpc = "write"
    /\ witem' = NoItem
    /\ wpc' = "failed"
    /\ chan' = <<>>
    /\ UNCHANGED <<rpc, req, resp, nreq, written, runpc, cancelled, sockShut, wstop, media, nframes>>
    /\ UNCHANGED notConn

---------------------------------------------------------------------------
\* Connection::run

\* The external stop signal of the connection is sent.
Cancel ==
    /\ ~cancelled
    /\ cancelled' = TRUE
    /\ UNCHANGED <<rpc, req, resp, nreq, chan, wpc, witem, written,
                   runpc, sockShut, wstop, media, nframes>>
    /\ UNCHANGED notConn

\* self.stop_rx.wait() returns.
RunWait ==
    /\ runpc = "wait"
    /\ cancelled
    /\ runpc' = "shutdown"
    /\ UNCHANGED <<rpc, req, resp, nreq, chan, wpc, witem, written,
                   cancelled, sockShut, wstop, media, nframes>>
    /\ UNCHANGED notConn

\* Connection::run without the shutdown of the socket.
ShutdownSkipped(s) == s

\* The socket after self.shutdown_handle.shutdown(Shutdown::Both).  A
\* failed shutdown is a socket that is no longer connected: reads and
\* writes on it fail as well.
ShutdownBoth(s) == TRUE

RunShutdown ==
    /\ runpc = "shutdown"
    /\ sockShut' = ShutdownBoth(sockShut)
    /\ runpc' = "stopWriter"
    /\ UNCHANGED <<rpc, req, resp, nreq, chan, wpc, witem, written,
                   cancelled, wstop, media, nframes>>
    /\ UNCHANGED notConn

\* Drop of writer_service: send its stop signal ...
RunStopWriter ==
    /\ runpc = "stopWriter"
    /\ wstop' = TRUE
    /\ runpc' = "joinWriter"
    /\ UNCHANGED <<rpc, req, resp, nreq, chan, wpc, witem, written,
                   cancelled, sockShut, media, nframes>>
    /\ UNCHANGED notConn

\* ... and join the writer thread.
RunJoinWriter ==
    /\ runpc = "joinWriter"
    /\ WriterExited
    /\ runpc' = "joinReader"
    /\ UNCHANGED <<rpc, req, resp, nreq, chan, wpc, witem, written,
                   cancelled, sockShut, wstop, media, nframes>>
    /\ UNCHANGED notConn

\* Drop of reader_service: its stop signal is ignored by reader_loop; join.
RunJoinReader ==
    /\ runpc = "joinReader"
    /\ ReaderExited
    /\ runpc' = "done"
    /\ UNCHANGED <<rpc, req, resp, nreq, chan, wpc, witem, written,
                   cancelled, sockShut, wstop, media, nframes>>
    /\ UNCHANGED notConn

---------------------------------------------------------------------------
\* The environment of the connection.

\* Another connection spawned by Server::run handles a request on the
\* shared media controller.
PeerHandle ==
    /\ \E m \in {HandleRequest(request, media, gen).media :
                     request \in ClientRequests, gen \in {"fresh", "collision"}} :
         /\ m # media
         /\ media' = m
    /\ UNCHANGED <<rpc, req, resp, nreq, chan, wpc, witem, written,
                   runpc, cancelled, sockShut, wstop, nframes>>
    /\ UNCHANGED notConn

\* A session pushes an interleaved frame onto the writer channel.
SessionFrame ==
    /\ nframes < MaxFrames
    /\ ~WriterExited
    /\ Len(chan) < ChanCap
    /\ chan' = ChanSend(chan, InterleavedItem)
    /\ nframes' = nframes + 1
    /\ UNCHANGED <<rpc, req, resp, nreq, wpc, witem, written, runpc,
                   cancelled, sockShut, wstop, media>>
    /\ UNCHANGED notConn

---------------------------------------------------------------------------

Init == ConnInit /\ HandRest /\ CodecRest /\ RegInit /\ RtpRest /\ RoundRest

Next ==
    \/ ReaderReadRequest
    \/ ReaderReadShutdown
    \/ ReaderReadError
    \/ ReaderHandle
    \/ ReaderSend
    \/ WriterRecv
    \/ WriterStop
    \/ WriterWriteOk
    \/ WriterWriteFail
    \/ Cancel
    \/ RunWait
    \/ RunShutdown
    \/ RunStopWriter
    \/ RunJoinWriter
    \/ RunJoinReader
    \/ PeerHandle
    \/ SessionFrame

Spec == Init /\ [][Next]_vars

---------------------------------------------------------------------------
\* The request handler on its own: handle_request is called with any
\* request, one call after the other, on the media controller the calls
\* before it left.

HandCall ==
    /\ hpc = "idle"
    /\ \E request \in Requests, gen \in {"fresh", "collision"} :
         /\ hreq' = request
         /\ hgen' = gen
    /\ hpc' = "called"
    /\ UNCHANGED <<hres, hbefore, hmedia>>
    /\ UNCHANGED notHand

HandReturn ==
    /\ hpc = "called"
    /\ hres' = HandleRequest(hreq, hmedia, hgen)
    /\ hbefore' = hmedia
    /\ hmedia' = HandleRequest(hreq, hmedia, hgen).media
    /\ hpc' = "returned"
    /\ UNCHANGED <<hreq, hgen>>
    /\ UNCHANGED notHand

\* The caller is done with the result (a panicked reader is replaced by the
\* reader of another connection).
HandNext ==
    /\ hpc = "returned"
    /\ hpc' = "idle"
    /\ UNCHANGED <<hreq, hgen, hres, hbefore, hmedia>>
    /\ UNCHANGED notHand

HandInit == HandRest /\ ConnInit /\ CodecRest /\ RegInit /\ RtpRest /\ RoundRest

HandlerNext ==
    \/ HandCall
    \/ HandReturn
    \/ HandNext

HandlerSpec == HandInit /\ [][HandlerNext]_vars

\* The transport reads the next chunk of the stream, of any size, once
\* decode has asked for more.
CodecFeed ==
    /\ cHungry
    /\ ~cErr
    /\ cWire # <<>>
    /\ \E k \in 1..Len(cWire) :
         /\ cBuf' = cBuf \o SubSeq(cWire, 1, k)
         /\ cWire' = SubSeq(cWire, k + 1, Len(cWire))
         /\ cBytewise' = (cBytewise /\ k = 1)
    /\ cHungry' = FALSE
    /\ UNCHANGED <<cItems, cState, cParser, cOut, cErr>>
    /\ UNCHANGED notCodec

\* The transport calls decode (again after every item, until Ok(None)).
CodecDecode ==
    /\ ~cHungry
    /\ ~cErr
    /\ LET d == Decode(cState, cParser, cBuf) IN
         /\ cState' = d.state
         /\ cParser' = d.parser
         /\ cBuf' = d.buf
         /\ cOut' = IF d.result = "Item" THEN Append(cOut, d.item) ELSE cOut
         /\ cHungry' = (d.result = "None")
         /\ cErr' = (d.result = "Error")
    /\ UNCHANGED <<cItems, cWire, cBytewise>>
    /\ UNCHANGED notCodec

CodecNext ==
    \/ CodecFeed
    \/ CodecDecode

CodecSpecInit == CodecInit /\ ConnInit /\ HandRest /\ RegInit /\ RtpRest /\ RoundRest

CodecSpec == CodecSpecInit /\ [][CodecNext]_vars

\* The codec in front of any stream, malformed ones included.
CodecRawSpecInit == CodecRawInit /\ ConnInit /\ HandRest /\ RegInit /\ RtpRest /\ RoundRest

CodecRawSpec == CodecRawSpecInit /\ [][CodecNext]_vars

---------------------------------------------------------------------------
\* The session registry.  setup_and_start, teardown and stop take
\* &mut self: one task calls them, one call after the other.  The run loop
\* and the sessions run beside it.

\* setup_and_start, up to the await of Session::setup_and_start: generate
\* an id, lock the map, look at the entry.  An occupied entry returns
\* Err(AlreadyRegistered); the lock guard is dropped on the way out.
SetupBegin ==
    /\ cpc = "idle"
    /\ mapLock = "free"
    /\ \E id \in Ids :
         /\ cid' = id
         /\ IF EntryVacant(sessions, id)
            THEN /\ Len(sess) < MaxSessions
                 /\ mapLock' = "caller"
                 /\ cpc' = "su_start"
                 /\ cret' = cret
            ELSE /\ mapLock' = mapLock
                 /\ cpc' = "idle"
                 /\ cret' = [op |-> "setup", id |-> id,
                             result |-> "AlreadyRegistered",
                             prior |-> tdState[id]]
    /\ UNCHANGED <<sessions, sess, stateCh, mpc, mid, stopReq, tdState>>
    /\ UNCHANGED notReg

\* Session::setup_and_start(..).await: the session's activity is spawned.
\* The map lock is held.
SetupStart ==
    /\ cpc = "su_start"
    /\ sess' = Append(sess, [id |-> cid, state |-> "running"])
    /\ cpc' = "su_insert"
    /\ UNCHANGED <<sessions, mapLock, stateCh, cid, cret, mpc, mid, stopReq,
                   tdState>>
    /\ UNCHANGED notReg

\* entry.insert(session); Ok(session_id).  The lock guard is dropped.
SetupInsert ==
    /\ cpc = "su_insert"
    /\ sessions' = MapInsert(sessions, cid, Len(sess))
    /\ mapLock' = "free"
    /\ cret' = [op |-> "setup", id |-> cid, result |-> "Ok",
                prior |-> tdState[cid]]
    /\ tdState' = [tdState EXCEPT ![cid] = "fresh"]
    /\ cpc' = "idle"
    /\ UNCHANGED <<sess, stateCh, cid, mpc, mid, stopReq>>
    /\ UNCHANGED notReg

\* teardown(id), up to the await of session.teardown(): lock the map, look
\* the id up.  An absent id returns None.
TeardownBegin ==
    /\ cpc = "idle"
    /\ mapLock = "free"
    /\ \E id \in Ids :
         /\ cid' = id
         /\ IF MapHas(sessions, id)
            THEN /\ mapLock' = "caller"
                 /\ cpc' = "td_await"
                 /\ cret' = cret
            ELSE /\ mapLock' = mapLock
                 /\ cpc' = "idle"
                 /\ cret' = [op |-> "teardown", id |-> id, result |-> "None",
                             prior |-> tdState[id]]
    /\ UNCHANGED <<sessions, sess, stateCh, mpc, mid, stopReq, tdState>>
    /\ UNCHANGED notReg

\* A teardown that takes the entry out of the map itself.
TeardownFinishRemoves ==
    /\ cpc = "td_await"
    /\ sess' = TornDown(sess, {sessions[cid]})
    /\ stateCh' = Notified(stateCh, sess, <<sessions[cid]>>, mpc = "exited")
    /\ sessions' = MapRemove(sessions, cid)
    /\ mapLock' = "free"
    /\ cret' = [op |-> "teardown", id |-> cid, result |-> "Some",
                prior |-> tdState[cid]]
    /\ tdState' = [tdState EXCEPT ![cid] = "torn"]
    /\ cpc' = "idle"
    /\ UNCHANGED <<cid, mpc, mid, stopReq>>
    /\ UNCHANGED notReg

\* session.teardown().await completes with the map lock held: the session
\* has stopped and sent Stopped(id).  Some(()); the lock guard is dropped.
TeardownFinish ==
    /\ cpc = "td_await"
    /\ sess' = TornDown(sess, {sessions[cid]})
    /\ stateCh' = Notified(stateCh, sess, <<sessions[cid]>>, mpc = "exited")
    /\ mapLock' = "free"
    /\ cret' = [op |-> "teardown", id |-> cid, result |-> "Some",
                prior |-> tdState[cid]]
    /\ tdState' = [tdState EXCEPT ![cid] = "torn"]
    /\ cpc' = "idle"
    /\ UNCHANGED <<sessions, cid, mpc, mid, stopReq>>
    /\ UNCHANGED notReg

\* A session's activity ends by itself (its source is exhausted): it sends
\* Stopped(id).
SessionEnds ==
    /\ \E i \in 1..Len(sess) :
         /\ sess[i].state = "running"
         /\ sess' = TornDown(sess, {i})
         /\ stateCh' = Notified(stateCh, sess, <<i>>, mpc = "exited")
    /\ UNCHANGED <<sessions, mapLock, cpc, cid, cret, mpc, mid, stopReq,
                   tdState>>
    /\ UNCHANGED notReg

\* run: select! takes session_state_rx.recv() = Some(Stopped(id)).
RunRecv ==
    /\ mpc = "select"
    /\ stateCh # <<>>
    /\ mid' = Head(stateCh)
    /\ stateCh' = Tail(stateCh)
    /\ mpc' = "remove"
    /\ UNCHANGED <<sessions, sess, mapLock, cpc, cid, cret, stopReq, tdState>>
    /\ UNCHANGED notReg

\* run: sessions.lock().await.remove(&session_id)
RunRemove ==
    /\ mpc = "remove"
    /\ mapLock = "free"
    /\ sessions' = MapRemove(sessions, mid)
    /\ tdState' = [tdState EXCEPT
                     ![mid] = IF @ = "torn" THEN "removed" ELSE @]
    /\ mpc' = "select"
    /\ UNCHANGED <<sess, mapLock, stateCh, cpc, cid, cret, mid, stopReq>>
    /\ UNCHANGED notReg

\* run: select! takes task_context.wait_for_stop(); the loop breaks and the
\* receiver is dropped with what is still queued.
RunExit ==
    /\ mpc = "select"
    /\ stopReq
    /\ mpc' = "exited"
    /\ stateCh' = <<>>
    /\ UNCHANGED <<sessions, sess, mapLock, cpc, cid, cret, mid, stopReq,
                   tdState>>
    /\ UNCHANGED notReg

\* stop: self.worker.stop() signals the run loop ...
StopSignal ==
    /\ cpc = "idle"
    /\ stopReq' = TRUE
    /\ cpc' = "stop_join"
    /\ UNCHANGED <<sessions, sess, mapLock, stateCh, cid, cret, mpc, mid,
                   tdState>>
    /\ UNCHANGED notReg

\* A stop that locks the map for the drain without awaiting the end of
\* the run loop.
StopJoinedEarly ==
    /\ cpc = "stop_join"
    /\ mapLock = "free"
    /\ mapLock' = "caller"
    /\ cpc' = "stop_drain"
    /\ UNCHANGED <<sessions, sess, stateCh, cid, cret, mpc, mid, stopReq,
                   tdState>>
    /\ UNCHANGED notReg

\* ... and awaits its end; then the map is locked for the drain.
StopJoined ==
    /\ cpc = "stop_join"
    /\ mpc = "exited"
    /\ mapLock = "free"
    /\ mapLock' = "caller"
    /\ cpc' = "stop_drain"
    /\ UNCHANGED <<sessions, sess, stateCh, cid, cret, mpc, mid, stopReq,
                   tdState>>
    /\ UNCHANGED notReg

\* stop: for (_, session) in drain() { session.teardown().await }, with
\* the map lock held throughout.
StopDrain ==
    /\ cpc = "stop_drain"
    /\ sess' = TornDown(sess, {sessions[id] : id \in Ids} \ {0})
    /\ sessions' = MapNew
    /\ mapLock' = "free"
    /\ cret' = [op |-> "stop", id |-> cid, result |-> "none",
                prior |-> "fresh"]
    /\ cpc' = "stopped"
    /\ UNCHANGED <<stateCh, cid, mpc, mid, stopReq, tdState>>
    /\ UNCHANGED notReg

RegistryNext ==
    \/ SetupBegin
    \/ SetupStart
    \/ SetupInsert
    \/ TeardownBegin
    \/ TeardownFinish
    \/ SessionEnds
    \/ RunRecv
    \/ RunRemove
    \/ RunExit
    \/ StopSignal
    \/ StopJoined
    \/ StopDrain

RegistryInit == RegInit /\ ConnInit /\ HandRest /\ CodecRest /\ RtpRest /\ RoundRest

RegistrySpec == RegistryInit /\ [][RegistryNext]_vars

\* The registry under the tokio scheduler: a task that can run does run,
\* the session state channel is unbounded, and the map's mutex is fair
\* (its waiters are served first in, first out), so the run loop gets the
\* lock although the caller keeps taking it.
RegistryFairness ==
    /\ WF_vars(SetupStart)
    /\ WF_vars(SetupInsert)
    /\ WF_vars(TeardownFinish)
    /\ WF_vars(RunRecv)
    /\ SF_vars(RunRemove)
    /\ WF_vars(RunExit)
    /\ WF_vars(StopJoined)
    /\ WF_vars(StopDrain)

RegistryFairSpec == RegistryInit /\ [][RegistryNext]_vars /\ RegistryFairness

---------------------------------------------------------------------------
\* The RTP-Info parser: from_str is called with any string.

RtpParse ==
    /\ tOut = NoParse
    /\ tOut' = from_str(tIn)
    /\ UNCHANGED tIn
    /\ UNCHANGED notRtp

RtpNext ==
    \/ RtpParse

RtpSpecInit == RtpInit /\ ConnInit /\ HandRest /\ CodecRest /\ RegInit /\ RoundRest

RtpInfoSpec == RtpSpecInit /\ [][RtpNext]_vars

---------------------------------------------------------------------------
\* The RTP-Info round trip: a value is displayed (to_string), and the text
\* is parsed back.

RtpDisplay ==
    /\ ~dText.some
    /\ dText' = Some(fmt(dVal))
    /\ UNCHANGED <<dVal, dBack>>
    /\ UNCHANGED notRound

RtpReparse ==
    /\ dText.some
    /\ dBack = NoParse
    /\ dBack' = from_str(dText.value)
    /\ UNCHANGED <<dVal, dText>>
    /\ UNCHANGED notRound

RtpRoundNext ==
    \/ RtpDisplay
    \/ RtpReparse

RtpRoundSpecInit ==
    RoundInit /\ ConnInit /\ HandRest /\ CodecRest /\ RegInit /\ RtpRest

RtpRoundSpec == RtpRoundSpecInit /\ [][RtpRoundNext]_vars

---------------------------------------------------------------------------
\* The connection under the scheduler: a thread that can take a step does
\* take one.  Nothing obliges the client to send, the I/O to fail, or the
\* server to cancel the connection.

ConnFairness ==
    /\ WF_vars(ReaderReadShutdown)
    /\ WF_vars(ReaderHandle)
    /\ WF_vars(ReaderSend)
    /\ WF_vars(WriterRecv)
    /\ WF_vars(WriterStop)
    /\ WF_vars(WriterWriteOk \/ WriterWriteFail)
    /\ WF_vars(RunWait)
    /\ WF_vars(RunShutdown)
    /\ WF_vars(RunStopWriter)
    /\ WF_vars(RunJoinWriter)
    /\ WF_vars(RunJoinReader)

ConnFairSpec == Init /\ [][Next]_vars /\ ConnFairness

\* A step the connection's own threads can take without new input.
ConnStep ==
    \/ ReaderReadShutdown
    \/ ReaderHandle
    \/ ReaderSend
    \/ WriterRecv
    \/ WriterStop
    \/ WriterWriteOk
    \/ WriterWriteFail
    \/ RunWait
    \/ RunShutdown
    \/ RunStopWriter
    \/ RunJoinWriter
    \/ RunJoinReader

---------------------------------------------------------------------------
\* C1

\* The items on their way to the socket, oldest first: written, being
\* written, queued, and the response the reader is about to enqueue.
Pipeline ==
    written
      \o (IF wpc = "write" THEN <<witem>> ELSE <<>>)
      \o chan
      \o (IF rpc = "send" THEN <<MessageItem(resp, nreq)>> ELSE <<>>)

IsMessage(item) == item.kind = "Message"

Increasing(s) == \A i, j \in 1..Len(s) : i < j => s[i].no < s[j].no

\* C1: the responses of a connection are written in the order of the
\* requests they answer: at every moment the responses written, being
\* written, queued and about to be queued answer requests of increasing
\* number (interleaved frames may sit between them), and the reader holds
\* request i+1 only when the response to request i has been enqueued.
C1_ResponsesInRequestOrder ==
    /\ Increasing(SelectSeq(Pipeline, IsMessage))
    /\ \A i \in 1..Len(Pipeline) : Pipeline[i].no <= nreq
    /\ rpc = "handle" =>
         \A i \in 1..Len(Pipeline) : Pipeline[i].no < nreq

\* Two responses written in order with an interleaved frame between them.
C1_Witness ==
    /\ Len(written) = 3
    /\ written[1].kind = "Message" /\ written[1].no = 1
    /\ written[2].kind = "Interleaved"
    /\ written[3].kind = "Message" /\ written[3].no = 2

---------------------------------------------------------------------------
\* C2

---------------------------------------------------------------------------
\* C4

\* C4: no request aborts the reader: handle_request returns a response
\* for every request.
C4_NoRequestAbortsReader == rpc # "panicked"

---------------------------------------------------------------------------
\* C5

\* C5: a fatal error closes the connection without the external
\* cancellation: once the reader has failed on a read or the writer on a
\* write, and the connection's threads have nothing left to do, the socket
\* is shut down and both the reader and the writer have terminated.
C5_FatalErrorCloses ==
    ((rpc = "failed" \/ wpc = "failed") /\ ~cancelled /\ ~ENABLED ConnStep)
        => (sockShut /\ ReaderExited /\ WriterExited)

---------------------------------------------------------------------------
\* C6

\* C6: every response handle_request returns carries the CSeq of the
\* request it answers (a request without CSeq gets a response without).
C6_CSeqReflected ==
    (hpc = "returned" /\ hres.kind = "Ok") => hres.response.cseq = hreq.cseq

\* A 500 reply (session id collision on SETUP) to a request with CSeq 2.
C6_Witness ==
    /\ hpc = "returned"
    /\ hres.kind = "Ok"
    /\ hres.response.status = 500
    /\ hreq.cseq = "2"
    /\ hres.response.cseq = "2"

---------------------------------------------------------------------------
\* C10

\* C10: a request with a Require header is answered 551 whatever its
\* method, and the media controller is neither locked nor changed.
C10_RequireFirst ==
    (hpc = "returned" /\ hreq.require)
        => /\ hres.kind = "Ok"
           /\ hres.response.status = 551
           /\ ~hres.locked
           /\ hmedia = hbefore

\* A SETUP with Require for a registered path, handled while the media
\* lock is poisoned: 551, where taking the lock would have panicked.
C10_Witness ==
    /\ hpc = "returned"
    /\ hreq.require
    /\ hreq.method = "SETUP"
    /\ ~hreq.session
    /\ hreq.path = "/a"
    /\ hbefore.poisoned
    /\ hres.response.status = 551

---------------------------------------------------------------------------
\* C3

IsPrefix(s, t) == Len(s) <= Len(t) /\ SubSeq(t, 1, Len(s)) = s

\* C3: whatever the chunks in which the encoding of N items reaches a
\* fresh decoder, decode never fails, returns the items in their order,
\* and has returned exactly the N items when it is hungry at the end of
\* the stream, with nothing left in the buffer or in a sub-parser.
C3_FramingPurity ==
    /\ ~cErr
    /\ IsPrefix(cOut, cItems)
    /\ (cHungry /\ cWire = <<>>)
          => (cOut = cItems /\ cBuf = <<>> /\ cState = "Init")

\* A message whose body is '$', then a frame on channel 0x24 with payload
\* '$', read one byte at a time and decoded up to the final hungry.
C3_Witness ==
    /\ cItems = <<MessageOf(<<MAGIC>>), InterleavedOf(MAGIC, <<MAGIC>>)>>
    /\ cBytewise
    /\ cWire = <<>>
    /\ cHungry
    /\ cOut = cItems

---------------------------------------------------------------------------
\* C7

\* The sessions setup_and_start has returned (the last one started is
\* still being inserted while the caller is at su_insert).
ReturnedSessions ==
    IF cpc = "su_insert" THEN 1..(Len(sess) - 1) ELSE 1..Len(sess)

LiveSessions == {i \in 1..Len(sess) : sess[i].state = "running"}

\* A setup_and_start call returns in this step.
SetupReturns == cret'.op = "setup" /\ cret' # cret

\* C7: no two sessions that are live at the same time have the same id,
\* and an entry of the map holds a session of its id; setup_and_start
\* returns Ok(id) only for an id that was absent from the map in the step
\* that inserts it, and AlreadyRegistered only for an id that is present,
\* leaving the map unchanged and starting no session.
C7_SessionUniqueness ==
    /\ [](/\ \A i, j \in LiveSessions : sess[i].id = sess[j].id => i = j
          /\ \A id \in Ids : MapHas(sessions, id) => sess[sessions[id]].id = id)
    /\ [][/\ (cpc = "su_insert" /\ cpc' = "idle")
                => (~MapHas(sessions, cid) /\ cret'.result = "Ok"
                      /\ sessions'[cid] = Len(sess))
          /\ (SetupReturns /\ cret'.result = "AlreadyRegistered")
                => (MapHas(sessions, cret'.id) /\ sessions' = sessions
                      /\ sess' = sess)]_vars

\* AlreadyRegistered was returned for an id whose session is live, and
\* another session is live under the other id.
C7_Witness ==
    /\ cret.op = "setup"
    /\ cret.result = "AlreadyRegistered"
    /\ MapHas(sessions, cret.id)
    /\ Cardinality(LiveSessions) = 2

---------------------------------------------------------------------------
\* C8

\* C8 as stated: once a teardown(id) has returned Some, every later
\* teardown(id) of that session returns None.
C8_SecondTeardownAbsent ==
    (cret.op = "teardown" /\ cret.prior # "fresh") => cret.result = "None"

\* C8 as amended: teardown leaves the entry in the map, so a later
\* teardown(id) returns Some again as long as the run loop has not handled
\* the session's Stopped(id), and returns None once it has, until a
\* session is registered under id again.
C8_TeardownAbsentOnceRemoved ==
    cret.op = "teardown"
        => /\ cret.prior = "torn" => cret.result = "Some"
           /\ cret.prior = "removed" => cret.result = "None"

\* A teardown that returned None after an earlier teardown of the same id
\* returned Some and the run loop removed the entry.
C8_Witness ==
    /\ cret.op = "teardown"
    /\ cret.prior = "removed"
    /\ cret.result = "None"

---------------------------------------------------------------------------
\* C9

\* C9: an id that setup_and_start has returned is never returned again.
C9_NeverReused ==
    \A i, j \in ReturnedSessions : sess[i].id = sess[j].id => i = j

---------------------------------------------------------------------------
\* C11

\* C11: a SETUP without Session and Require headers is answered according
\* to the outcome of the registration: 200 when the session is registered,
\* 404 when the path is not registered, 500 on a session id collision; a
\* response is returned in each of the three.
C11_SetupReplies ==
    (hpc = "returned" /\ hreq.method = "SETUP" /\ ~hreq.require
       /\ ~hreq.session)
        => /\ hres.kind = "Ok"
           /\ hres.response.status =
                 CASE register_session(hbefore, hreq.path, hgen) = "Ok" -> 200
                   [] register_session(hbefore, hreq.path, hgen) = "NotFound"
                        -> 404
                   [] OTHER -> 500

---------------------------------------------------------------------------
\* C12

\* C12: a SETUP with a Session header and no Require header is answered
\* 459, whatever its path, and the media controller is neither locked nor
\* changed (no session is registered).
C12_SetupWithSessionRefused ==
    (hpc = "returned" /\ hreq.method = "SETUP" /\ ~hreq.require
       /\ hreq.session)
        => /\ hres.kind = "Ok"
           /\ hres.response.status = 459
           /\ ~hres.locked
           /\ hmedia = hbefore

\* A SETUP with a Session header for a registered path whose session id
\* would have been fresh: 459, and no session was registered.
C12_Witness ==
    /\ hpc = "returned"
    /\ hreq.method = "SETUP"
    /\ ~hreq.require
    /\ hreq.session
    /\ hreq.path = "/a"
    /\ hgen = "fresh"
    /\ ~hbefore.poisoned
    /\ hres.response.status = 459
    /\ hmedia.sessions = 0

---------------------------------------------------------------------------
\* C13

\* C13: a PLAY or TEARDOWN (without Require) whose Session header is
\* missing or names a session the server does not know is answered 454.
\* No SETUP ever completes, so every session id is unknown.
C13_SessionNotFound ==
    (hpc = "returned" /\ hreq.method \in {"PLAY", "TEARDOWN"}
       /\ ~hreq.require)
        => /\ hres.kind = "Ok"
           /\ hres.response.status = 454

---------------------------------------------------------------------------
\* C14

\* C14: a DESCRIBE without Require is answered 406 when Accept does not
\* list application/sdp, without the media controller being locked;
\* otherwise 200 with the SDP when the controller has one for the path and
\* 404 when it has none.  The media controller is never changed.
C14_DescribeReplies ==
    (hpc = "returned" /\ hreq.method = "DESCRIBE" /\ ~hreq.require)
        => /\ hres.kind = "Ok"
           /\ hmedia = hbefore
           /\ IF ~hreq.accept_sdp
              THEN hres.response.status = 406 /\ ~hres.locked
              ELSE IF query_sdp(hbefore, hreq.path) # "None"
                   THEN /\ hres.response.status = 200
                        /\ hres.response.header = query_sdp(hbefore, hreq.path)
                   ELSE hres.response.status = 404

---------------------------------------------------------------------------
\* C15

\* The ';'-separated fields of the string given to from_str.
RtpParts == Split(tIn, ";")

\* The number of the fields after the first that start with prefix.
CountOf(prefix) ==
    Cardinality({i \in 2..Len(RtpParts) : StartsWith(RtpParts[i], prefix)})

\* C15: from_str accepts a string only if its first field is url=..., it
\* has at most three fields, every further field is seq=<u16> or
\* rtptime=<u32>, and seq and rtptime each appear at most once; a string
\* that does not start with url= is rejected as RtpInfoParameterUnknown
\* and a fourth field is rejected.
C15_RtpInfoGrammar ==
    tOut.kind # "None"
        => /\ tOut.kind = "Ok"
                => /\ StartsWith(RtpParts[1], URL_PREFIX)
                   /\ Len(RtpParts) <= 3
                   /\ \A i \in 2..Len(RtpParts) :
                        \/ /\ StartsWith(RtpParts[i], SEQ_PREFIX)
                           /\ ParseUnsigned(StripPrefix(RtpParts[i], SEQ_PREFIX),
                                            U16_MAX).ok
                        \/ /\ StartsWith(RtpParts[i], RTPTIME_PREFIX)
                           /\ ParseUnsigned(StripPrefix(RtpParts[i], RTPTIME_PREFIX),
                                            U32_MAX).ok
                   /\ CountOf(SEQ_PREFIX) <= 1
                   /\ CountOf(RTPTIME_PREFIX) <= 1
           /\ ~StartsWith(RtpParts[1], URL_PREFIX)
                => tOut.err = "RtpInfoParameterUnknown"
           /\ Len(RtpParts) > 3 => tOut.kind = "Err"

---------------------------------------------------------------------------
\* C16

\* C16: the map lock is never held across a suspension point: a caller
\* that awaits the start-up of a session (su_start), the teardown of a
\* session (td_await) or the teardowns of the drain (stop_drain) does not
\* hold the lock.
C16_NoLockAcrossAwait ==
    cpc \in {"su_start", "td_await", "stop_drain"} => mapLock # "caller"

---------------------------------------------------------------------------
\* C17

\* The entry of session i is in the map m.
InMap(ss, m, i) == m[ss[i].id] = i

\* C17: teardown never changes the map; the entry of an installed session
\* leaves the map only by the run loop's remove for its id or by the drain
\* of stop, and never comes back once it has left (it is removed at most
\* once); when stop has returned no entry is left (every entry was
\* removed).
C17_EntryLifecycle ==
    /\ [](cpc = "stopped"
            => \A i \in 1..Len(sess) : ~InMap(sess, sessions, i))
    /\ [][/\ (TeardownBegin \/ TeardownFinish) => sessions' = sessions
          /\ \A i \in ReturnedSessions :
               /\ ~InMap(sess, sessions, i) => ~InMap(sess', sessions', i)
               /\ (InMap(sess, sessions, i) /\ ~InMap(sess', sessions', i))
                    => \/ mpc = "remove" /\ mpc' = "select"
                             /\ mid = sess[i].id
                       \/ cpc = "stop_drain" /\ cpc' = "stopped"]_vars

\* Two sessions under one id: the entry of the first was removed by the
\* run loop, the second was torn down and its entry left to the drain of
\* stop.
C17_Witness ==
    /\ cpc = "stopped"
    /\ Len(sess) = 2
    /\ sess[1].id = sess[2].id
    /\ tdState[sess[2].id] = "torn"

---------------------------------------------------------------------------
\* C18

\* C18: the run loop exits only when told to stop; stop drains the map
\* only after the run loop has exited; when stop has returned the map is
\* empty and every session has been torn down.
C18_ShutdownOrder ==
    /\ mpc = "exited" => stopReq
    /\ cpc = "stop_drain" => mpc = "exited"
    /\ cpc = "stopped"
         => /\ sessions = MapNew
            /\ \A i \in 1..Len(sess) : sess[i].state = "stopped"

\* stop has returned with two sessions under different ids, the first torn
\* down by teardown with its Stopped notification never handled.
C18_Witness ==
    /\ cpc = "stopped"
    /\ Len(sess) = 2
    /\ sess[1].id # sess[2].id
    /\ tdState[sess[1].id] = "torn"
    /\ tdState[sess[2].id] = "fresh"

---------------------------------------------------------------------------
\* C20

\* C20: teardown and the run loop do not deadlock: a teardown that awaits
\* the session's teardown with the map lock held completes and releases
\* the lock, and once a teardown has returned Some for id the entry of id
\* is eventually removed from the map, unless the run loop is told to
\* stop.
C20_TeardownRunNoDeadlock ==
    /\ (cpc = "td_await") ~> (cpc = "idle" /\ mapLock = "free")
    /\ \A id \in Ids :
         (tdState[id] = "torn") ~> (~MapHas(sessions, id) \/ stopReq)

\* A session was torn down, the run loop took its Stopped notification
\* and removed the entry, and the run loop was never told to stop.
C20_Witness ==
    /\ ~stopReq
    /\ \E id \in Ids : tdState[id] = "removed" /\ ~MapHas(sessions, id)
    /\ mpc = "select"
    /\ stateCh = <<>>

---------------------------------------------------------------------------
\* C19

\* The decode call of this step emitted an item.
Emitted == Len(cOut') = Len(cOut) + 1

---------------------------------------------------------------------------
\* C21

\* A DESCRIBE with Accept application/sdp for the registered path.
PeerDescribe ==
    [method |-> "DESCRIBE", cseq |-> "1", require |-> FALSE,
     session |-> FALSE, accept_sdp |-> TRUE, path |-> "/a"]

\* C21: connections are isolated: whatever the requests handled so far on
\* the connections that share the media controller, a DESCRIBE with
\* Accept application/sdp for a registered path, handled now on another
\* connection, acquires the media controller and is answered 200.
C21_PeerDescribeAnswered ==
    /\ HandleRequest(PeerDescribe, media, "fresh").kind = "Ok"
    /\ HandleRequest(PeerDescribe, media, "fresh").response.status = 200

---------------------------------------------------------------------------
\* C22

\* The character ch occurs in the string s.
Contains(s, ch) == \E i \in 1..Len(s) : s[i] = ch

\* The text is url=<url>, then seq=<seq> if seq is present, then
\* rtptime=<rtptime> if rtptime is present, separated by ';', and nothing
\* else.
CanonicalFor(text, x) ==
    LET parts == Split(text, ";")
        n == Len(Split(x.url, ";"))
    IN /\ StartsWith(text, URL_PREFIX \o x.url)
       /\ Len(parts) = n + (IF x.seq.some THEN 1 ELSE 0)
                         + (IF x.rtptime.some THEN 1 ELSE 0)
       /\ x.seq.some => parts[n + 1] = SEQ_PREFIX \o x.seq.value
       /\ x.rtptime.some
            => parts[Len(parts)] = RTPTIME_PREFIX \o x.rtptime.value

\* The text of x with rtptime written before seq.
SwappedText(x) ==
    URL_PREFIX \o x.url \o <<";">> \o RTPTIME_PREFIX \o x.rtptime.value
      \o <<";">> \o SEQ_PREFIX \o x.seq.value

\* C22 as stated: for every RtpInfo value, whatever its url, the text
\* Display writes is url, then seq, then rtptime, and parsing it yields
\* the value.
C22_RoundTripAnyUrl ==
    dBack.kind # "None"
        => /\ CanonicalFor(dText.value, dVal)
           /\ dBack = ParseOk(dVal)

\* C22 as amended: the text Display writes is url, then seq, then
\* rtptime; for every RtpInfo value whose url holds no ';', parsing that
\* text yields the value, and so does parsing the text with seq and
\* rtptime in the other order.
C22_RoundTrip ==
    dBack.kind # "None"
        => /\ CanonicalFor(dText.value, dVal)
           /\ ~Contains(dVal.url, ";")
                => /\ dBack = ParseOk(dVal)
                   /\ (dVal.seq.some /\ dVal.rtptime.some)
                        => from_str(SwappedText(dVal)) = ParseOk(dVal)

\* The value with url "u=", the greatest seq and the greatest rtptime was
\* displayed and parsed back to itself.
C22_Witness ==
    /\ dVal = [url |-> <<"u", "=">>, seq |-> Some(U16_MAX),
               rtptime |-> Some(U32_MAX)]
    /\ dText.some
    /\ dBack = ParseOk(dVal)

=============================================================================
